---------------------------- MODULE Spec2Model ----------------------------
(***************************************************************************)
(* A model of fit.cpp: the five sigmoid model families with their         *)
(* gradient evaluators, the ECDF construction and thread-per-class        *)
(* scheduling of fitClasses, and the per-class job curveFitting.          *)
(*                                                                         *)
(* C++ doubles are modelled as exact rationals <<num, den>> in lowest      *)
(* terms with den > 0.  The ALGLIB solver is an external collaborator:    *)
(* the coefficients it returns are modelled as a term recording what the  *)
(* solver was given, and the error it reports as a value fixed per run.   *)
(***************************************************************************)
EXTENDS Integers, Sequences, FiniteSets, TLC

(***************************************************************************)
(* Bounds of the model.                                                    *)
(***************************************************************************)
NumClasses == 2   \* classes in the input mapping of the concurrent runs
MaxLen == 2       \* longest distance sequence of the single-class runs
GridDen == 2      \* distances are multiples of 1/GridDen
MaxErr == 1       \* weighted-RMS errors range over 0..MaxErr
KMax == 3         \* gradient evaluations: k in -KMax..KMax
QDen == 4         \* gradient evaluations: alpha and x are multiples of 1/QDen in [0, 1]

(***************************************************************************)
(* Program constants.                                                      *)
(***************************************************************************)
NumModels == 5    \* five hand-unrolled fits in curveFitting
K0Milli == 367    \* c = "[0.367, 0.45]", in thousandths
Alpha0Milli == 450

(***************************************************************************)
(* Exact rational arithmetic standing for double arithmetic.               *)
(***************************************************************************)
Abs(n) == IF n < 0 THEN -n ELSE n

RECURSIVE GCD(_, _)
GCD(a, b) == IF b = 0 THEN a ELSE GCD(b, a % b)

Norm(n, d) ==
    LET g == GCD(Abs(n), Abs(d))
        s == IF d < 0 THEN -1 ELSE 1
    IN  <<(s * n) \div g, (s * d) \div g>>

R(n) == <<n, 1>>
RAdd(a, b) == Norm(a[1] * b[2] + b[1] * a[2], a[2] * b[2])
RNeg(a) == <<-a[1], a[2]>>
RSub(a, b) == RAdd(a, RNeg(b))
RMul(a, b) == Norm(a[1] * b[1], a[2] * b[2])
RDiv(a, b) == Norm(a[1] * b[2], a[2] * b[1])
RLeq(a, b) == a[1] * b[2] <= b[1] * a[2]


(***************************************************************************)
(* The ECDF construction of fitClasses (y values and in-place insertion)  *)
(* and the weights of curveFitting.  Sequences are 1-indexed here: C++    *)
(* index i is index i + 1.                                                 *)
(***************************************************************************)
\* the quotient taken in size_t: static_cast<double> left out
ECDF_y_IntDiv(l) ==
    [j \in 1..(l + 2) |->
        IF j = 1 THEN R(1)
        ELSE IF j = l + 2 THEN R(0)
        ELSE RSub(R(1), R((j - 1) \div (l + 1)))]

ECDF_y(l) ==
    [j \in 1..(l + 2) |->
        IF j = 1 THEN R(1)
        ELSE IF j = l + 2 THEN R(0)
        ELSE RSub(R(1), Norm(j - 1, l + 1))]

Augment(v) == <<R(0)>> \o v \o <<R(1)>>

Weights(sd, y_values) == [i \in 1..Len(y_values) |-> RMul(sd[i], sd[i])]

(***************************************************************************)
(* The solver, an external collaborator.  lsfitcreatewfg records the      *)
(* points and the starting coefficients, lsfitsetcond the stopping        *)
(* conditions; the coefficients lsfitresults returns are the term         *)
(* "fitted by model n from this solver state".                            *)
(***************************************************************************)
FunctionNames ==
    <<"Logistic function", "hyperbolic tangent function", "arctangent function",
      "gudermannian function", "simple algebraic function">>

InitialGuess == [k |-> K0Milli, alpha |-> Alpha0Milli]

lsfitcreatewfg(x, y, w, c) == [x |-> x, y |-> y, w |-> w, c |-> c, epsx |-> 0, maxits |-> 0]

lsfitsetcond(st, epsx, maxits) == [st EXCEPT !.epsx = epsx, !.maxits = maxits]

lsfitresults(st, n) == [model |-> n, solved |-> st]

(***************************************************************************)
(* The selection loop of curveFitting: bestFit = results[0], replaced by  *)
(* each later result whose error is strictly smaller.                     *)
(***************************************************************************)
\* <= in place of <: the last of several equal errors wins
Better_OrEqual(result, best) == result.wrmsError <= best.wrmsError

Better(result, best) == result.wrmsError < best.wrmsError

RECURSIVE SelectFrom(_, _, _)
SelectFrom(results, i, best) ==
    IF i > Len(results) THEN best
    ELSE SelectFrom(results, i + 1, IF Better(results[i], best) THEN results[i] ELSE best)

SelectBest(results) == SelectFrom(results, 1, results[1])

(***************************************************************************)
(* State.                                                                  *)
(***************************************************************************)
VARIABLES
    sorted_distances, \* the caller's map: class name -> distances (augmented in place)
    wrmserror,        \* per class and model, the error the solver reports (fixed per run)
    mainpc,           \* fitClasses: "run", "unwind", "returned", "terminated"
    retval,           \* value of the executed return statement, or NotReturned
    threads,          \* fitClasses::threads: "none", "joinable", "joined"
    futures,          \* fitClasses::results: "none", "pending", "value", "exception"
    logged,           \* class names printed by the catch handler
    jobpc,            \* curveFitting: "idle","setup","fit","lock","crit","unlock","done","failed"
    args,             \* the thread's copies of (sorted_distances, y_values, className)
    pts,              \* curveFitting's x, y, w
    c,                \* curveFitting's coefficient array c
    state,            \* curveFitting's lsfitstate
    results,          \* curveFitting's vector of FitResult
    m,                \* the mutex: its owner, or "free"
    bestFit,          \* MODEL_STATE.bestFit
    given,            \* history: the map as the caller passed it
    fitCalls,         \* history: lsfitfit calls made by each job
    thrownAt,         \* history: the model at which the job's solver threw, or 0
    acquired,         \* history: jobs that have locked m
    writes,           \* history: assignments made to each key of bestFit
    gin,              \* gradient evaluation: the arguments c[0], c[1], x[0]
    gout              \* gradient evaluation: evaluator, func, grad, or "none"

vars ==
    <<sorted_distances, wrmserror, mainpc, retval, threads, futures, logged, jobpc, args,
      pts, c, state, results, m, bestFit, given, fitCalls, thrownAt, acquired, writes,
      gin, gout>>

mainVars == <<mainpc, retval, threads, futures, logged>>
jobLocals == <<pts, c, state, results>>
gradVars == <<gin, gout>>
inputVars == <<wrmserror, given>>

ClassNames == <<"A", "B", "C", "D", "E">>
Classes == {ClassNames[i] : i \in 1..NumClasses}
Keys == DOMAIN sorted_distances

None == "none"              \* no thread, no future
Nil == [nil |-> TRUE]       \* an object that does not exist (yet, or any more)
NotReturned == 0 - 1        \* no return statement executed
Free == "free"

(***************************************************************************)
(* Inputs.                                                                 *)
(***************************************************************************)
Grid == {Norm(i, GridDen) : i \in 0..(GridDen + 1)}

IsSorted(v) == \A i \in 1..(Len(v) - 1) : RLeq(v[i], v[i + 1])

SortedSeqs == {v \in UNION {[1..n -> Grid] : n \in 0..MaxLen} : IsSorted(v)}

ErrRows == [1..NumModels -> 0..MaxErr]

\* Inputs of the concurrent runs: a few distance sequences, each with the
\* errors the (deterministic) solver reports on it.
Fixtures ==
    { [dist |-> <<>>, err |-> <<1, 1, 1, 1, 1>>],
      [dist |-> <<Norm(1, 4)>>, err |-> <<1, 0, 1, 0, 1>>],
      [dist |-> <<Norm(1, 4), Norm(3, 4)>>, err |-> <<2, 2, 1, 2, 0>>] }

InitRun(dist, err) ==
    /\ sorted_distances = dist
    /\ wrmserror = err
    /\ mainpc = "run"
    /\ retval = NotReturned
    /\ threads = [k \in DOMAIN dist |-> None]
    /\ futures = [k \in DOMAIN dist |-> None]
    /\ logged = <<>>
    /\ jobpc = [k \in DOMAIN dist |-> "idle"]
    /\ args = [k \in DOMAIN dist |-> Nil]
    /\ pts = [k \in DOMAIN dist |-> Nil]
    /\ c = [k \in DOMAIN dist |-> Nil]
    /\ state = [k \in DOMAIN dist |-> Nil]
    /\ results = [k \in DOMAIN dist |-> <<>>]
    /\ m = Free
    /\ bestFit = <<>>
    /\ given = dist
    /\ fitCalls = [k \in DOMAIN dist |-> 0]
    /\ thrownAt = [k \in DOMAIN dist |-> 0]
    /\ acquired = {}
    /\ writes = [k \in DOMAIN dist |-> 0]

NoGrad == gin = Nil /\ gout = Nil

\* Concurrent runs: every class of Classes, each with one of the fixtures.
Init ==
    /\ \E f \in [Classes -> Fixtures] :
          InitRun([k \in Classes |-> f[k].dist], [k \in Classes |-> f[k].err])
    /\ NoGrad

\* Single-class runs: every sorted sequence and every row of errors.
InitOne ==
    /\ \E v \in SortedSeqs, e \in ErrRows : InitRun([k \in {"A"} |-> v], [k \in {"A"} |-> e])
    /\ NoGrad

(***************************************************************************)
(* fitClasses.  The two loops visit the keys of an unordered_map: any     *)
(* order.  One iteration of the first loop builds the y values, inserts   *)
(* the boundary points in place and starts the thread, whose constructor  *)
(* copies the three arguments.                                             *)
(***************************************************************************)
Alive == mainpc # "terminated"

Finished(cls) == jobpc[cls] \in {"done", "failed"}

\* every thread handed the name of one and the same map entry
ThreadArgs_FirstName(sd, y, cls) ==
    [sorted_distances |-> sd, y_values |-> y, className |-> CHOOSE k \in Keys : TRUE]

ThreadArgs(sd, y, cls) == [sorted_distances |-> sd, y_values |-> y, className |-> cls]

Launch(cls) ==
    /\ mainpc = "run"
    /\ threads[cls] = None
    /\ LET l == Len(sorted_distances[cls])
           y == ECDF_y(l)
           second == Augment(sorted_distances[cls])
       IN  /\ sorted_distances' = [sorted_distances EXCEPT ![cls] = second]
           /\ args' = [args EXCEPT ![cls] = ThreadArgs(second, y, cls)]
    /\ futures' = [futures EXCEPT ![cls] = "pending"]
    /\ threads' = [threads EXCEPT ![cls] = "joinable"]
    /\ jobpc' = [jobpc EXCEPT ![cls] = "setup"]
    /\ UNCHANGED <<inputVars, mainpc, retval, logged, jobLocals, m, bestFit, fitCalls,
                   thrownAt, acquired, writes, gradVars>>

AllLaunched == \A k \in Keys : threads[k] # None

\* pair.second.join(); results[pair.first].get(); without an exception
JoinOk(cls) ==
    /\ mainpc = "run"
    /\ AllLaunched
    /\ threads[cls] = "joinable"
    /\ Finished(cls)
    /\ futures[cls] = "value"
    /\ threads' = [threads EXCEPT ![cls] = "joined"]
    /\ UNCHANGED <<sorted_distances, inputVars, mainpc, retval, futures, logged, jobpc, args,
                   jobLocals, m, bestFit, fitCalls, thrownAt, acquired, writes, gradVars>>

\* get() rethrows the stored ap_error: the handler prints the class and executes return 1
JoinCatch(cls) ==
    /\ mainpc = "run"
    /\ AllLaunched
    /\ threads[cls] = "joinable"
    /\ Finished(cls)
    /\ futures[cls] = "exception"
    /\ threads' = [threads EXCEPT ![cls] = "joined"]
    /\ logged' = Append(logged, cls)
    /\ retval' = 1
    /\ mainpc' = "unwind"
    /\ UNCHANGED <<sorted_distances, inputVars, futures, jobpc, args, jobLocals, m, bestFit,
                   fitCalls, thrownAt, acquired, writes, gradVars>>

\* the join loop is over: return 0
Return0 ==
    /\ mainpc = "run"
    /\ \A k \in Keys : threads[k] = "joined"
    /\ retval' = 0
    /\ mainpc' = "unwind"
    /\ UNCHANGED <<sorted_distances, inputVars, threads, futures, logged, jobpc, args,
                   jobLocals, m, bestFit, fitCalls, thrownAt, acquired, writes, gradVars>>

\* A return statement destroys the locals: the destructor of a std::thread
\* that is still joinable calls std::terminate, which ends the process.
Unwind ==
    /\ mainpc = "unwind"
    /\ mainpc' = IF \E k \in Keys : threads[k] = "joinable" THEN "terminated" ELSE "returned"
    /\ UNCHANGED <<sorted_distances, inputVars, retval, threads, futures, logged, jobpc, args,
                   jobLocals, m, bestFit, fitCalls, thrownAt, acquired, writes, gradVars>>

(***************************************************************************)
(* curveFitting, run by the thread of class cls on its own copies.        *)
(***************************************************************************)
\* lines 110-137: x, y, w and the initial coefficients
Setup(cls) ==
    /\ Alive
    /\ jobpc[cls] = "setup"
    /\ pts' = [pts EXCEPT ![cls] =
                  [x |-> args[cls].sorted_distances,
                   y |-> args[cls].y_values,
                   w |-> Weights(args[cls].sorted_distances, args[cls].y_values)]]
    /\ c' = [c EXCEPT ![cls] = InitialGuess]
    /\ jobpc' = [jobpc EXCEPT ![cls] = "fit"]
    /\ UNCHANGED <<sorted_distances, inputVars, mainVars, args, state, results, m, bestFit,
                   fitCalls, thrownAt, acquired, writes, gradVars>>

\* what the next lsfitcreatewfg and lsfitsetcond of job cls leave in state
Created(cls) == lsfitsetcond(lsfitcreatewfg(pts[cls].x, pts[cls].y, pts[cls].w, c[cls]), 0, 0)

\* one of the five blocks: create, setcond, fit, results, push_back
FitOk(cls) ==
    /\ Alive
    /\ jobpc[cls] = "fit"
    /\ LET n == Len(results[cls]) + 1
           st == Created(cls)
           fitted == lsfitresults(st, n)
       IN  /\ state' = [state EXCEPT ![cls] = st]
           /\ c' = [c EXCEPT ![cls] = fitted]
           /\ results' = [results EXCEPT ![cls] =
                             Append(@, [c |-> fitted, functionName |-> FunctionNames[n],
                                        wrmsError |-> wrmserror[cls][n]])]
           /\ jobpc' = [jobpc EXCEPT ![cls] = IF n = NumModels THEN "lock" ELSE "fit"]
    /\ fitCalls' = [fitCalls EXCEPT ![cls] = @ + 1]
    /\ UNCHANGED <<sorted_distances, inputVars, mainVars, args, pts, m, bestFit, thrownAt,
                   acquired, writes, gradVars>>

\* the solver throws ap_error: curveFitting is left, its locals are destroyed,
\* and the packaged_task stores the exception in the future
FitThrows(cls) ==
    /\ Alive
    /\ jobpc[cls] = "fit"
    /\ fitCalls' = [fitCalls EXCEPT ![cls] = @ + 1]
    /\ thrownAt' = [thrownAt EXCEPT ![cls] = Len(results[cls]) + 1]
    /\ pts' = [pts EXCEPT ![cls] = Nil]
    /\ c' = [c EXCEPT ![cls] = Nil]
    /\ state' = [state EXCEPT ![cls] = Nil]
    /\ results' = [results EXCEPT ![cls] = <<>>]
    /\ futures' = [futures EXCEPT ![cls] = "exception"]
    /\ jobpc' = [jobpc EXCEPT ![cls] = "failed"]
    /\ UNCHANGED <<sorted_distances, inputVars, mainpc, retval, threads, logged, args, m,
                   bestFit, acquired, writes, gradVars>>

\* the lock taken without waiting for its owner
Lock_NoWait(cls) ==
    /\ Alive
    /\ jobpc[cls] = "lock"
    /\ m' = cls
    /\ acquired' = acquired \cup {cls}
    /\ jobpc' = [jobpc EXCEPT ![cls] = "crit"]
    /\ UNCHANGED <<sorted_distances, inputVars, mainVars, args, jobLocals, bestFit, fitCalls,
                   thrownAt, writes, gradVars>>

\* m.lock()
Lock(cls) ==
    /\ Alive
    /\ jobpc[cls] = "lock"
    /\ m = Free
    /\ m' = cls
    /\ acquired' = acquired \cup {cls}
    /\ jobpc' = [jobpc EXCEPT ![cls] = "crit"]
    /\ UNCHANGED <<sorted_distances, inputVars, mainVars, args, jobLocals, bestFit, fitCalls,
                   thrownAt, writes, gradVars>>

\* the whole table assigned instead of one key
Store_Replace(table, className, fit) == [k \in {className} |-> fit]

\* MODEL_STATE.bestFit[className] = ...
Store(table, className, fit) == [k \in DOMAIN table \cup {className} |->
                                    IF k = className THEN fit ELSE table[k]]

\* lines 205-226: print, select the best result, save it
PrintAndStore(cls) ==
    /\ Alive
    /\ jobpc[cls] = "crit"
    /\ bestFit' = Store(bestFit, args[cls].className, SelectBest(results[cls]))
    /\ writes' = [writes EXCEPT ![args[cls].className] = @ + 1]
    /\ jobpc' = [jobpc EXCEPT ![cls] = "unlock"]
    /\ UNCHANGED <<sorted_distances, inputVars, mainVars, args, jobLocals, m, fitCalls,
                   thrownAt, acquired, gradVars>>

\* m.unlock(); curveFitting returns: its locals are destroyed, the future is ready
Unlock(cls) ==
    /\ Alive
    /\ jobpc[cls] = "unlock"
    /\ m' = Free
    /\ pts' = [pts EXCEPT ![cls] = Nil]
    /\ c' = [c EXCEPT ![cls] = Nil]
    /\ state' = [state EXCEPT ![cls] = Nil]
    /\ results' = [results EXCEPT ![cls] = <<>>]
    /\ futures' = [futures EXCEPT ![cls] = "value"]
    /\ jobpc' = [jobpc EXCEPT ![cls] = "done"]
    /\ UNCHANGED <<sorted_distances, inputVars, mainpc, retval, threads, logged, args,
                   bestFit, fitCalls, thrownAt, acquired, writes, gradVars>>

Next ==
    \/ \E cls \in Keys : Launch(cls)
    \/ \E cls \in Keys : JoinOk(cls)
    \/ \E cls \in Keys : JoinCatch(cls)
    \/ Return0
    \/ Unwind
    \/ \E cls \in Keys : Setup(cls)
    \/ \E cls \in Keys : FitOk(cls)
    \/ \E cls \in Keys : FitThrows(cls)
    \/ \E cls \in Keys : Lock(cls)
    \/ \E cls \in Keys : PrintAndStore(cls)
    \/ \E cls \in Keys : Unlock(cls)

Spec == Init /\ [][Next]_vars

SpecOne == InitOne /\ [][Next]_vars

(***************************************************************************)
(* The model library.  exp, tanh, cosh and atan are irrational at every   *)
(* nonzero rational argument, and sqrt at every rational that is not a     *)
(* square: there the value is kept as the term <<function, argument,      *)
(* argument>>, and arithmetic on a term yields the term of the operation. *)
(* A rational is a pair, a term a triple.                                  *)
(***************************************************************************)
IsRat(v) == Len(v) = 2
Sym(op, a, b) == <<op, a, b>>

XAdd(a, b) == IF IsRat(a) /\ IsRat(b) THEN RAdd(a, b) ELSE Sym("+", a, b)
XSub(a, b) == IF IsRat(a) /\ IsRat(b) THEN RSub(a, b) ELSE Sym("-", a, b)
XMul(a, b) == IF IsRat(a) /\ IsRat(b) THEN RMul(a, b) ELSE Sym("*", a, b)
XDiv(a, b) == IF IsRat(a) /\ IsRat(b) THEN RDiv(a, b) ELSE Sym("/", a, b)
XNeg(a) == IF IsRat(a) THEN RNeg(a) ELSE Sym("neg", a, a)

IsZero(u) == IsRat(u) /\ u[1] = 0
exp(u) == IF IsZero(u) THEN R(1) ELSE Sym("exp", u, u)
tanh(u) == IF IsZero(u) THEN R(0) ELSE Sym("tanh", u, u)
cosh(u) == IF IsZero(u) THEN R(1) ELSE Sym("cosh", u, u)
atan(u) == IF IsZero(u) THEN R(0) ELSE Sym("atan", u, u)

\* the integer square root, by bisection between lo and hi
RECURSIVE Floor_sqrt(_, _, _)
Floor_sqrt(n, lo, hi) ==
    IF lo >= hi THEN lo
    ELSE LET mid == (lo + hi + 1) \div 2
         IN  IF mid * mid <= n THEN Floor_sqrt(n, mid, hi) ELSE Floor_sqrt(n, lo, mid - 1)

Root(n) == Floor_sqrt(n, 0, IF n < 32768 THEN n ELSE 32768)
IsSquare(n) == n >= 0 /\ Root(n) * Root(n) = n
sqrt(q) ==
    IF IsRat(q) /\ IsSquare(q[1]) /\ IsSquare(q[2])
    THEN <<Root(q[1]), Root(q[2])>>
    ELSE Sym("sqrt", q, q)

sech(x) == XDiv(R(1), cosh(x))

logistic(k, alpha, x) == XDiv(R(1), XAdd(R(1), exp(XMul(XNeg(k), XSub(x, alpha)))))

hyperbolic_tangent(k, alpha, x) ==
    LET p == exp(XMul(k, XSub(x, alpha)))
        q == exp(XMul(XNeg(k), XSub(x, alpha)))
    IN  XDiv(XAdd(XDiv(XSub(p, q), XAdd(p, q)), R(1)), R(2))

arctangent(k, alpha, x) == XDiv(XAdd(atan(XMul(k, XSub(x, alpha))), R(1)), R(2))

gudermannian(k, alpha, x) ==
    XDiv(XAdd(XMul(R(2), atan(tanh(XDiv(XMul(k, XSub(x, alpha)), R(2))))), R(1)), R(2))

algebraic(k, alpha, x) ==
    LET term == XMul(k, XSub(x, alpha))
    IN  XDiv(XAdd(XDiv(XMul(k, XSub(x, alpha)), sqrt(XAdd(R(1), XMul(term, term)))), R(1)),
             R(2))

\* the result of one evaluator call: func, grad, and the argument its
\* gradient lines pass to exp, sech and tanh (none for the other two)
Evaluated(fd, func, g0, g1, arg) == [fd |-> fd, func |-> func, grad |-> <<g0, g1>>, arg |-> arg]

GradCall(out) ==
    /\ gin # Nil
    /\ gout = Nil
    /\ gout' = out
    /\ UNCHANGED <<sorted_distances, inputVars, mainVars, jobpc, args, jobLocals, m, bestFit,
                   fitCalls, thrownAt, acquired, writes, gin>>

logistic_fd ==
    LET c0 == gin.k
        c1 == gin.alpha
        x0 == gin.x
        e == exp(XMul(c0, XSub(c1, x0)))
    IN  GradCall(Evaluated("logistic_fd",
            XSub(R(1), logistic(c0, c1, x0)),
            XNeg(XMul(XDiv(XMul(XSub(x0, c1), e), XAdd(e, R(1))), XAdd(e, R(1)))),
            XMul(XDiv(XMul(c0, e), XAdd(e, R(1))), e),
            XMul(c0, XSub(c1, x0))))

hyperbolic_fd ==
    LET c0 == gin.k
        c1 == gin.alpha
        x0 == gin.x
        e == exp(XMul(XMul(R(2), c0), XSub(x0, c1)))
        den == XMul(XAdd(e, R(1)), XAdd(e, R(1)))
    IN  GradCall(Evaluated("hyperbolic_fd",
            XSub(R(1), hyperbolic_tangent(c0, c1, x0)),
            XDiv(XNeg(XMul(XMul(R(2), XSub(x0, c1)), e)), den),
            XDiv(XMul(XMul(R(2), c0), e), den),
            XMul(XMul(R(2), c0), XSub(x0, c1))))

arctangent_fd ==
    LET c0 == gin.k
        c1 == gin.alpha
        x0 == gin.x
        den == XMul(R(2), XAdd(XMul(XMul(XMul(c0, c0), XSub(x0, c1)), XSub(x0, c1)), R(1)))
    IN  GradCall(Evaluated("arctangent_fd",
            XSub(R(1), arctangent(c0, c1, x0)),
            XNeg(XDiv(XSub(x0, c1), den)),
            XNeg(XDiv(c0, den)),
            Nil))

gudermannian_fd ==
    LET c0 == gin.k
        c1 == gin.alpha
        x0 == gin.x
        \* 1/2 * c[0] * (x[0] - c[1]): the quotient 1/2 is taken in int
        h == XMul(XMul(R(1 \div 2), c0), XSub(x0, c1))
        den == XMul(R(2), XAdd(XMul(tanh(h), tanh(h)), R(1)))
    IN  GradCall(Evaluated("gudermannian_fd",
            XSub(R(1), gudermannian(c0, c1, x0)),
            XDiv(XNeg(XMul(XMul(XSub(x0, c1), sech(h)), sech(h))), den),
            XDiv(XMul(XMul(c0, sech(h)), sech(h)), den),
            h))

algebraic_fd ==
    LET c0 == gin.k
        c1 == gin.alpha
        x0 == gin.x
        q == XAdd(XMul(XMul(XMul(c0, c0), XSub(x0, c1)), XSub(x0, c1)), R(1))
        den == XMul(R(2), sqrt(XMul(XMul(q, q), q)))
    IN  GradCall(Evaluated("algebraic_fd",
            XSub(R(1), algebraic(c0, c1, x0)),
            XNeg(XDiv(XSub(x0, c1), den)),
            XNeg(XDiv(c0, den)),
            Nil))

NextGrad == logistic_fd \/ hyperbolic_fd \/ arctangent_fd \/ gudermannian_fd \/ algebraic_fd

\* Evaluator calls at the points (k, alpha, x) of a grid.
InitGrad ==
    /\ InitRun(<<>>, <<>>)
    /\ \E k \in (0 - KMax)..KMax, a \in 0..QDen, x \in 0..QDen :
          gin = [k |-> R(k), alpha |-> Norm(a, QDen), x |-> Norm(x, QDen)]
    /\ gout = Nil

SpecGrad == InitGrad /\ [][NextGrad]_vars

(***************************************************************************)
(* What the claims speak of.                                               *)
(***************************************************************************)
Left == mainpc # "run"                         \* a return statement has been executed
Over == mainpc \in {"returned", "terminated"}  \* the call is over
Threw(k) == thrownAt[k] # 0
FitsDone(k) == fitCalls[k] = NumModels /\ ~Threw(k)  \* all five fits returned

ExpectedX(v) == <<R(0)>> \o v \o <<R(1)>>
ExpectedYAt(Y, i, l) == Y[i + 1][1] * (l + 1) = (l + 1 - i) * Y[i + 1][2]
IsSquareOf(wv, xv) == wv[1] * xv[2] * xv[2] = xv[1] * xv[1] * wv[2]

ExpectedPoints(p, v) ==
    LET l == Len(v)
    IN  /\ Len(p.x) = l + 2 /\ Len(p.y) = l + 2 /\ Len(p.w) = l + 2
        /\ p.x = ExpectedX(v)
        /\ p.y[1] = R(1)
        /\ \A i \in 1..l : ExpectedYAt(p.y, i, l)
        /\ p.y[l + 2] = R(0)
        /\ \A i \in 1..(l + 1) : RLeq(p.y[i + 1], p.y[i])
        /\ \A i \in 1..(l + 2) : IsSquareOf(p.w[i], p.x[i])

MinErr(row) == CHOOSE e \in {row[n] : n \in 1..NumModels} : \A n \in 1..NumModels : e <= row[n]
FirstMin(row) == CHOOSE n \in 1..NumModels : row[n] = MinErr(row) /\ \A j \in 1..(n - 1) : row[j] # MinErr(row)

\* every solver state in the chain behind coefficients cf was created on the points of v
RECURSIVE FittedOn(_, _)
FittedOn(cf, v) ==
    \/ cf = InitialGuess
    \/ /\ cf # InitialGuess
       /\ ExpectedPoints(cf.solved, v)
       /\ FittedOn(cf.solved.c, v)

(***************************************************************************)
(* C1: once fitClasses has executed a return statement, with either       *)
(* result, every thread it launched has finished and has been joined.     *)
(***************************************************************************)
C1_ReturnsAfterAllJoined ==
    Left => \A k \in Keys : threads[k] = "joined" /\ Finished(k)

(***************************************************************************)
(* C2: whenever fitClasses reports failure (return 1 executed, the        *)
(* failing class logged), every class whose five fits all succeeded has   *)
(* its entry in MODEL_STATE.bestFit.                                       *)
(***************************************************************************)
C2_FailureKeepsSuccesses ==
    (Left /\ retval = 1) =>
        /\ Len(logged) = 1 /\ Threw(logged[1])
        /\ \A k \in Keys : FitsDone(k) => k \in DOMAIN bestFit

(***************************************************************************)
(* C3: no job reads another class's points, and after fitClasses has      *)
(* returned 0 the table has one entry per input class, the entry of       *)
(* class N being the best result (least error, earliest model) of fits    *)
(* made on N's own points.                                                 *)
(***************************************************************************)
C3_NoCrossContamination ==
    /\ \A k \in Keys :
          /\ pts[k] # Nil => ExpectedPoints(pts[k], given[k])
          /\ state[k] # Nil => ExpectedPoints(state[k], given[k])
    /\ (Left /\ retval = 0) =>
          /\ DOMAIN bestFit = Keys
          /\ \A k \in Keys :
                /\ FittedOn(bestFit[k].c, given[k])
                /\ bestFit[k].c.model = FirstMin(wrmserror[k])
                /\ bestFit[k].functionName = FunctionNames[FirstMin(wrmserror[k])]
                /\ bestFit[k].wrmsError = MinErr(wrmserror[k])

C3_Witness ==
    /\ mainpc = "returned" /\ retval = 0
    /\ \E j, k \in Keys : j # k /\ given[j] # given[k] /\ bestFit[j] # bestFit[k]

(***************************************************************************)
(* C4: a solver exception at model n ends the class's job there: n fits   *)
(* were started and no more are, the earlier results are gone, the table  *)
(* gets no entry for the class and the job never takes the lock; and by   *)
(* the time the call is over fitClasses has named the class.              *)
(***************************************************************************)
C4_Aborted(k) ==
    /\ jobpc[k] = "failed" /\ futures[k] = "exception"
    /\ fitCalls[k] = thrownAt[k]
    /\ results[k] = <<>>
    /\ k \notin DOMAIN bestFit /\ writes[k] = 0
    /\ k \notin acquired /\ m # k

Named(k) == \E i \in 1..Len(logged) : logged[i] = k

C4_FailureAbortsClassAndIsNamed ==
    \A k \in Keys : Threw(k) => (C4_Aborted(k) /\ (Over => Named(k)))

\* The job's half of C4 alone, which holds.
JobAbortedOnThrow == \A k \in Keys : Threw(k) => C4_Aborted(k)

(***************************************************************************)
(* C5: the result stored for a class has the least of the five errors,    *)
(* and is the earliest model with that error.                             *)
(***************************************************************************)
C5_BestIsFirstMinimum ==
    \A k \in DOMAIN bestFit :
        /\ \A n \in 1..NumModels : bestFit[k].wrmsError <= wrmserror[k][n]
        /\ \E n \in 1..NumModels :
              /\ bestFit[k].functionName = FunctionNames[n]
              /\ bestFit[k].c.model = n
              /\ wrmserror[k][n] = bestFit[k].wrmsError
              /\ \A j \in 1..(n - 1) : wrmserror[k][j] > bestFit[k].wrmsError

C5_Witness ==
    /\ "A" \in DOMAIN bestFit
    /\ wrmserror["A"] = <<1, 0, 1, 0, 1>>
    /\ bestFit["A"].functionName = "hyperbolic tangent function"

(***************************************************************************)
(* C6: for a sorted input of length l >= 0 the job's X, Y and W have      *)
(* length l + 2, X = [0] ++ input ++ [1], Y[0] = 1, Y[i] = 1 - i/(l+1),   *)
(* Y[l+1] = 0, Y is non-increasing and W[i] = X[i]^2.                     *)
(***************************************************************************)
C6_EcdfPoints ==
    \A k \in Keys :
        /\ args[k] # Nil =>
              /\ args[k].sorted_distances = ExpectedX(given[k])
              /\ sorted_distances[k] = ExpectedX(given[k])
              /\ Len(args[k].y_values) = Len(given[k]) + 2
        /\ pts[k] # Nil => ExpectedPoints(pts[k], given[k])

C6_Witness ==
    /\ pts["A"] # Nil
    /\ Len(given["A"]) = MaxLen
    /\ given["A"][1] # given["A"][MaxLen]

(***************************************************************************)
(* C7: one thread per class, started once and never restarted; each key   *)
(* of the table is assigned at most once, by the job of that class; an    *)
(* entry once in the table stays as it is.                                 *)
(***************************************************************************)
C7_State ==
    /\ \A k \in Keys : writes[k] <= 1 /\ fitCalls[k] <= NumModels
    /\ DOMAIN bestFit = {k \in Keys : writes[k] = 1}
    /\ \A k \in Keys : (threads[k] = None) <=> (jobpc[k] = "idle")

C7_Step ==
    /\ \A k \in DOMAIN bestFit : k \in DOMAIN bestFit' /\ bestFit'[k] = bestFit[k]
    /\ \A k \in Keys :
          /\ (jobpc'[k] = "setup" /\ jobpc[k] # "setup") => (jobpc[k] = "idle" /\ threads[k] = None)
          /\ jobpc[k] # "idle" => jobpc'[k] # "idle"
          /\ Finished(k) => jobpc'[k] = jobpc[k]
          /\ threads[k] # None => threads'[k] # None

C7_OneJobOneEntry == [](C7_State) /\ [][C7_Step]_vars

C7_Witness == DOMAIN bestFit = Keys /\ Cardinality(Keys) >= 2

(***************************************************************************)
(* C9: every solver state a job creates starts from the initial guess     *)
(* (0.367, 0.45) with epsx = 0 and maxits = 0.                            *)
(***************************************************************************)
C9_SameInitialGuess ==
    \A k \in Keys :
        state[k] # Nil =>
            state[k].c = InitialGuess /\ state[k].epsx = 0 /\ state[k].maxits = 0

(***************************************************************************)
(* C10: at most one job is between m.lock() and m.unlock(); the owner of  *)
(* the lock is in its print-and-insert step, never in a fit; a finished   *)
(* job does not own the lock; and the table changes only by the owner     *)
(* writing its own key.                                                    *)
(***************************************************************************)
InCritical(k) == jobpc[k] \in {"crit", "unlock"}

C10_State ==
    /\ Cardinality({k \in Keys : InCritical(k)}) <= 1
    /\ \A k \in Keys : (m = k) <=> InCritical(k)
    /\ \A k \in Keys : InCritical(k) => fitCalls[k] = NumModels /\ k \in acquired
    /\ \A k \in Keys : Finished(k) => m # k

C10_Step ==
    bestFit' # bestFit =>
        /\ m \in Keys /\ jobpc[m] = "crit"
        /\ DOMAIN bestFit' = DOMAIN bestFit \cup {m}
        /\ \A k \in DOMAIN bestFit \ {m} : bestFit'[k] = bestFit[k]

C10_LockOnlyAroundStore == [](C10_State) /\ [][C10_Step]_vars

C10_Witness ==
    \E j, k \in Keys : j # k /\ m = j /\ jobpc[k] = "fit" /\ fitCalls[k] > 0

(***************************************************************************)
(* C8: every evaluator returns the exact partial derivatives of           *)
(* residual = 1 - shape(k, alpha, x): -(x - alpha) s and k s, where s is  *)
(* the slope of the shape at u = k (x - alpha); and the argument of sech  *)
(* and tanh in the Gudermannian gradient is u / 2.  Compared wherever     *)
(* both values are rational.                                               *)
(***************************************************************************)
TrueSlope(fd, u) ==
    CASE fd = "logistic_fd" -> IF IsZero(u) THEN Norm(1, 4) ELSE Sym("slope", u, u)
      [] fd = "hyperbolic_fd" -> IF IsZero(u) THEN Norm(1, 2) ELSE Sym("slope", u, u)
      [] fd = "arctangent_fd" -> RDiv(R(1), RMul(R(2), RAdd(R(1), RMul(u, u))))
      [] fd = "gudermannian_fd" -> IF IsZero(u) THEN Norm(1, 2) ELSE Sym("slope", u, u)
      [] fd = "algebraic_fd" ->
            LET q == RAdd(R(1), RMul(u, u))
            IN  IF IsRat(sqrt(q))
                THEN RDiv(R(1), RMul(R(2), RMul(q, sqrt(q))))
                ELSE Sym("slope", u, u)

TrueGrad(fd, k, alpha, x) ==
    LET s == TrueSlope(fd, RMul(k, RSub(x, alpha)))
    IN  <<XNeg(XMul(RSub(x, alpha), s)), XMul(k, s)>>

C8_GradientsExact ==
    gout # Nil =>
        LET t == TrueGrad(gout.fd, gin.k, gin.alpha, gin.x)
        IN  /\ \A i \in 1..2 : (IsRat(t[i]) /\ IsRat(gout.grad[i])) => gout.grad[i] = t[i]
            /\ gout.fd = "gudermannian_fd" =>
                  gout.arg = RDiv(RMul(gin.k, RSub(gin.x, gin.alpha)), R(2))

=============================================================================
